---- MODULE Spec2Model ----
(***************************************************************************)
(* A model of the metadata layer of zarr-python:                           *)
(*   - the metadata document resolver (zarr/core/metadata/_io.py):         *)
(*     _build_paths and _gather_documents, run on an asyncio event loop    *)
(*     against an abstract key-value store;                                *)
(*   - the chunk key encodings (zarr/core/chunk_key_encodings.py);         *)
(*   - the value codec (zarr/_serialization.py): encode, decode and the    *)
(*     resolution of tagged unions.                                        *)
(***************************************************************************)
EXTENDS Integers, Sequences, FiniteSets, TLC

VARIABLES
    store,      \* the keys present in the store at the request's path
    budget,     \* how many more reads the store may fail
    desc,       \* per request: the arguments of the call (node_type, zarr_format)
    pc,         \* per request: where the coroutine _gather_documents is
    node_type,  \* per request: the local variable node_type
    paths,      \* per request: the local list paths
    task,       \* per request: the tasks asyncio.gather made, one per path
    exc,        \* per request: the exception set on gather's future
    gets,       \* per request and key: the get calls the store has received
    outcome,    \* per request: what the caller got
    ck_self,    \* chunk keys: the encoding instance
    ck_coords,  \* chunk keys: the coordinate tuple given to encode_chunk_key
    ck_key,     \* chunk keys: the key string (a sequence of characters)
    ck_out,     \* chunk keys: the result of decode_chunk_key
    ck_pc,      \* chunk keys: which operation has run
    ser_type,   \* value codec: the target type of the call
    ser_in,     \* value codec: the argument (a record, a document, a value tree)
    ser_doc,    \* value codec: the bytes encode gave in a round trip
    ser_out,    \* value codec: the result of the call
    ser_pc      \* value codec: which operation has run

rvars == <<store, budget, desc, pc, node_type, paths, task, exc, gets, outcome>>
ckvars == <<ck_self, ck_coords, ck_key, ck_out, ck_pc>>
servars == <<ser_type, ser_in, ser_doc, ser_out, ser_pc>>
vars == <<store, budget, desc, pc, node_type, paths, task, exc, gets, outcome,
          ck_self, ck_coords, ck_key, ck_out, ck_pc,
          ser_type, ser_in, ser_doc, ser_out, ser_pc>>

-----------------------------------------------------------------------------
(* Bounds *)

\* the reads the store may fail during one run of the resolver
MaxFaults == 2

\* the reads the store may fail while several requests run concurrently
MaxConcFaults == 1

\* the largest number of dimensions of a chunk coordinate tuple
MaxDims == 2

\* the largest chunk coordinate (two decimal digits are reached)
MaxCoord == 11

\* the longest key string given to decode_chunk_key ("c/1/2" has five characters)
MaxKeyLen == 5

\* the largest number held by a record or a value tree of the value codec
MaxInt == 1

\* the most members of a tuple of any length or a list held by a record
MaxItems == 2

\* the longest sequence of a value tree (three elements meet the tuples of two)
MaxLen == 3

-----------------------------------------------------------------------------
(* Values *)

\* Python's None
None == [tag |-> "None"]

\* a Python str and a Python int
PyStr(s) == [tag |-> "str", v |-> s]
PyInt(n) == [tag |-> "int", v |-> n]

\* Python's Ellipsis (the literal ...)
Ellipsis == [tag |-> "Ellipsis"]

\* the buffer the store returns for a key that is present
Bytes(k) == [tag |-> "bytes", key |-> k]

\* an exception object
Error(type, arg) == [tag |-> "error", type |-> type, arg |-> arg]

\* the exception a failing store read raises
ReadError(k) == Error("StoreReadError", k)

ZARR_JSON == "zarr.json"
ZARRAY_JSON == ".zarray"
ZGROUP_JSON == ".zgroup"
ZATTRS_JSON == ".zattrs"

KEYS == {ZARR_JSON, ZARRAY_JSON, ZGROUP_JSON, ZATTRS_JSON}

\* Literal["array", "group"] | None
ARRAY == PyStr("array")
GROUP == PyStr("group")
NodeTypes == {ARRAY, GROUP, None}

\* ZarrFormat | None
V2 == PyInt(2)
V3 == PyInt(3)
ZarrFormats == {V2, V3, None}

\* the requests that may run; "r1" is the one that runs alone
Requests == {"r1", "r2"}

Range(s) == {s[i] : i \in DOMAIN s}

\* what a function call gives its caller: a value, or an exception
Returned(v) == [kind |-> "returned", value |-> v, error |-> None]
Raised(e) == [kind |-> "raised", value |-> None, error |-> e]
Pending == [kind |-> "pending", value |-> None, error |-> None]

-----------------------------------------------------------------------------
(* zarr/core/metadata/_io.py *)

\* _build_paths with the single document forgotten for a group of unknown format
_build_paths_missing(n, f) ==
    CASE f = V3 -> Returned(<<ZARR_JSON>>)
      [] n = ARRAY /\ f = V2 -> Returned(<<ZARRAY_JSON, ZATTRS_JSON>>)
      [] n = ARRAY /\ f = None -> Returned(<<ZARR_JSON, ZATTRS_JSON, ZARRAY_JSON>>)
      [] n = GROUP /\ f = V2 -> Returned(<<ZGROUP_JSON, ZATTRS_JSON>>)
      [] n = GROUP /\ f = None -> Returned(<<ZGROUP_JSON, ZATTRS_JSON>>)
      [] n = None /\ f = V2 -> Returned(<<ZARRAY_JSON, ZATTRS_JSON, ZGROUP_JSON>>)
      [] n = None /\ f = None ->
            Returned(<<ZARRAY_JSON, ZATTRS_JSON, ZGROUP_JSON, ZARR_JSON>>)
      [] OTHER -> Raised(Error("ValueError", "Unhandled state"))

\* _build_paths with paths a list of the module, shared by the calls and never
\* emptied, instead of a list of the call
_build_paths_shared(n, f) ==
    LET own == CASE f = V3 -> <<ZARR_JSON>>
                 [] n = ARRAY /\ f = V2 -> <<ZARRAY_JSON, ZATTRS_JSON>>
                 [] n = ARRAY /\ f = None -> <<ZARR_JSON, ZATTRS_JSON, ZARRAY_JSON>>
                 [] n = GROUP /\ f = V2 -> <<ZGROUP_JSON, ZATTRS_JSON>>
                 [] n = GROUP /\ f = None -> <<ZGROUP_JSON, ZATTRS_JSON, ZARR_JSON>>
                 [] n = None /\ f = V2 -> <<ZARRAY_JSON, ZATTRS_JSON, ZGROUP_JSON>>
                 [] OTHER -> <<ZARRAY_JSON, ZATTRS_JSON, ZGROUP_JSON, ZARR_JSON>>
    IN Returned(paths["r1"] \o paths["r2"] \o own)

\* _build_paths reading the group document too for an array of format 2
_build_paths_eager(n, f) ==
    CASE f = V3 -> Returned(<<ZARR_JSON>>)
      [] n = ARRAY /\ f = V2 -> Returned(<<ZARRAY_JSON, ZATTRS_JSON, ZGROUP_JSON>>)
      [] n = ARRAY /\ f = None -> Returned(<<ZARR_JSON, ZATTRS_JSON, ZARRAY_JSON>>)
      [] n = GROUP /\ f = V2 -> Returned(<<ZGROUP_JSON, ZATTRS_JSON>>)
      [] n = GROUP /\ f = None -> Returned(<<ZGROUP_JSON, ZATTRS_JSON, ZARR_JSON>>)
      [] n = None /\ f = V2 -> Returned(<<ZARRAY_JSON, ZATTRS_JSON, ZGROUP_JSON>>)
      [] n = None /\ f = None ->
            Returned(<<ZARRAY_JSON, ZATTRS_JSON, ZGROUP_JSON, ZARR_JSON>>)
      [] OTHER -> Raised(Error("ValueError", "Unhandled state"))

\* _build_paths: the match over (node_type, zarr_format)
_build_paths(n, f) ==
    CASE f = V3 -> Returned(<<ZARR_JSON>>)
      [] n = ARRAY /\ f = V2 -> Returned(<<ZARRAY_JSON, ZATTRS_JSON>>)
      [] n = ARRAY /\ f = None -> Returned(<<ZARR_JSON, ZATTRS_JSON, ZARRAY_JSON>>)
      [] n = GROUP /\ f = V2 -> Returned(<<ZGROUP_JSON, ZATTRS_JSON>>)
      [] n = GROUP /\ f = None -> Returned(<<ZGROUP_JSON, ZATTRS_JSON, ZARR_JSON>>)
      [] n = None /\ f = V2 -> Returned(<<ZARRAY_JSON, ZATTRS_JSON, ZGROUP_JSON>>)
      [] n = None /\ f = None ->
            Returned(<<ZARRAY_JSON, ZATTRS_JSON, ZGROUP_JSON, ZARR_JSON>>)
      [] OTHER -> Raised(Error("ValueError", "Unhandled state"))

\* (store_path / path).get(): the stored bytes, or None for an absent key
StorePathGet(s, k) == IF k \in s THEN Bytes(k) ELSE None

\* the tasks asyncio.gather makes of the coroutines, in the order of paths
GatherTasks(p) ==
    [i \in 1..Len(p) |-> [key |-> p[i], state |-> "scheduled", result |-> None]]

\* gather's future done as soon as one task has finished (FIRST_COMPLETED)
GatherDoneFirstCompleted(r) == \E i \in DOMAIN task[r] : task[r][i].state = "done"

\* gather's future done when every task has ended, an exception being a result
\* like another (return_exceptions=True)
GatherDoneReturnExceptions(r) ==
    \A i \in DOMAIN task[r] : task[r][i].state \in {"done", "failed"}

\* gather's future has its result: every task has finished without an exception
GatherDone(r) == \A i \in DOMAIN task[r] : task[r][i].state = "done"

\* the list asyncio.gather returns: the tasks' results in the order of the paths
GatherResults(r) == [i \in DOMAIN task[r] |-> task[r][i].result]

\* dict(zip(paths, results, strict=True)): a later pair replaces an earlier one
ZipDict(p, results) ==
    [k \in Range(p) |->
        results[CHOOSE i \in DOMAIN p :
                    p[i] = k /\ \A j \in DOMAIN p : p[j] = k => j <= i]]

\* the second match without the test of items[ZARR_JSON]
InterpretNoCheck(n, f, items) ==
    CASE f = V3 -> Returned(None)
      [] n \in NodeTypes /\ f \in {V2, None} -> Returned(None)
      [] OTHER -> Raised(Error("ValueError", "Unhandled state"))

\* the second match of _gather_documents: what the call gives its caller
Interpret(n, f, items) ==
    CASE f = V3 ->
            IF items[ZARR_JSON] = None
            THEN Raised(Error("Exception", "todo"))
            ELSE Returned(None)
      [] n \in NodeTypes /\ f \in {V2, None} -> Returned(None)
      [] OTHER -> Raised(Error("ValueError", "Unhandled state"))

\* the second match of _gather_documents: the local node_type afterwards
InterpretNodeType(n, f, items) ==
    IF f = V3 /\ items[ZARR_JSON] # None THEN Ellipsis ELSE n

\* the second match of _gather_documents: the local paths afterwards
InterpretPaths(n, f, p) ==
    CASE f = V3 -> p
      [] n = ARRAY /\ f = V2 -> p \o <<ZARRAY_JSON, ZATTRS_JSON>>
      [] n = ARRAY /\ f = None -> p \o <<ZARR_JSON, ZATTRS_JSON, ZARRAY_JSON>>
      [] n = GROUP /\ f = V2 -> p \o <<ZGROUP_JSON, ZATTRS_JSON>>
      [] n = GROUP /\ f = None -> p \o <<ZGROUP_JSON, ZATTRS_JSON, ZARR_JSON>>
      [] n = None /\ f = V2 -> p \o <<ZARRAY_JSON, ZATTRS_JSON, ZGROUP_JSON>>
      [] n = None /\ f = None ->
            p \o <<ZARRAY_JSON, ZATTRS_JSON, ZGROUP_JSON, ZARR_JSON>>
      [] OTHER -> p

\* _gather_documents up to its await: the paths are built, one coroutine is
\* made per path and asyncio.gather schedules a task for each
Call(r) ==
    /\ pc[r] = "ready"
    /\ LET built == _build_paths(desc[r].node_type, desc[r].zarr_format) IN
        IF built.kind = "raised"
        THEN /\ pc' = [pc EXCEPT ![r] = "raised"]
             /\ outcome' = [outcome EXCEPT ![r] = built]
             /\ UNCHANGED <<paths, task>>
        ELSE /\ pc' = [pc EXCEPT ![r] = "awaiting"]
             /\ paths' = [paths EXCEPT ![r] = built.value]
             /\ task' = [task EXCEPT ![r] = GatherTasks(built.value)]
             /\ UNCHANGED outcome
    /\ UNCHANGED <<store, budget, desc, node_type, exc, gets>>
    /\ UNCHANGED <<ckvars, servars>>

\* the event loop runs a scheduled task: the store receives the get. The loop
\* runs what gather scheduled in the order it was scheduled, that of the paths
ReadStart(r, i) ==
    /\ i \in DOMAIN task[r]
    /\ task[r][i].state = "scheduled"
    /\ \A j \in 1..(i - 1) : task[r][j].state # "scheduled"
    /\ task' = [task EXCEPT ![r][i].state = "running"]
    /\ gets' = [gets EXCEPT ![r][task[r][i].key] = @ + 1]
    /\ UNCHANGED <<store, budget, desc, pc, node_type, paths, exc, outcome>>
    /\ UNCHANGED <<ckvars, servars>>

\* the store answers a get: the task finishes with the bytes or with None
ReadComplete(r, i) ==
    /\ i \in DOMAIN task[r]
    /\ task[r][i].state = "running"
    /\ task' = [task EXCEPT ![r][i].state = "done",
                            ![r][i].result = StorePathGet(store, task[r][i].key)]
    /\ UNCHANGED <<store, budget, desc, pc, node_type, paths, exc, gets, outcome>>
    /\ UNCHANGED <<ckvars, servars>>

\* a failed get tried again: the task is scheduled anew
ReadFailRetry(r, i) ==
    /\ i \in DOMAIN task[r]
    /\ task[r][i].state = "running"
    /\ budget > 0
    /\ budget' = budget - 1
    /\ task' = [task EXCEPT ![r][i].state = "scheduled"]
    /\ UNCHANGED <<store, desc, pc, node_type, paths, exc, gets, outcome>>
    /\ UNCHANGED <<ck_self, ck_coords, ck_key, ck_out, ck_pc>>
    /\ UNCHANGED servars

\* the store fails a get: the task finishes with the exception, and gather's
\* future takes the exception of the first task that fails; the other tasks
\* are not cancelled
ReadFail(r, i) ==
    /\ i \in DOMAIN task[r]
    /\ task[r][i].state = "running"
    /\ budget > 0
    /\ budget' = budget - 1
    /\ task' = [task EXCEPT ![r][i].state = "failed",
                            ![r][i].result = ReadError(task[r][i].key)]
    /\ exc' = [exc EXCEPT ![r] = IF @ = None THEN ReadError(task[r][i].key) ELSE @]
    /\ UNCHANGED <<store, desc, pc, node_type, paths, gets, outcome>>
    /\ UNCHANGED <<ckvars, servars>>

\* the await of asyncio.gather raises the exception of gather's future. The
\* loop wakes the awaiting coroutine after the tasks gather scheduled before
\* it have had their first run
GatherRaise(r) ==
    /\ pc[r] = "awaiting"
    /\ exc[r] # None
    /\ \A i \in DOMAIN task[r] : task[r][i].state # "scheduled"
    /\ pc' = [pc EXCEPT ![r] = "raised"]
    /\ outcome' = [outcome EXCEPT ![r] = Raised(exc[r])]
    /\ UNCHANGED <<store, budget, desc, node_type, paths, task, exc, gets>>
    /\ UNCHANGED <<ckvars, servars>>

\* the await of asyncio.gather returns the results, and _gather_documents runs
\* to its end: items is built and the second match is run
GatherReturn(r) ==
    /\ pc[r] = "awaiting"
    /\ GatherDone(r)
    /\ LET n == node_type[r]
           f == desc[r].zarr_format
           items == ZipDict(paths[r], GatherResults(r))
           result == Interpret(n, f, items)
       IN /\ outcome' = [outcome EXCEPT ![r] = result]
          /\ pc' = [pc EXCEPT ![r] = result.kind]
          /\ node_type' = [node_type EXCEPT ![r] = InterpretNodeType(n, f, items)]
          /\ paths' = [paths EXCEPT ![r] = InterpretPaths(n, f, @)]
    /\ UNCHANGED <<store, budget, desc, task, exc, gets>>
    /\ UNCHANGED <<ckvars, servars>>

-----------------------------------------------------------------------------
(* zarr/core/chunk_key_encodings.py *)

\* A Python str is a sequence of characters, each a string of length one.
Digits == <<"0", "1", "2", "3", "4", "5", "6", "7", "8", "9">>

IsDigit(c) == \E d \in DOMAIN Digits : Digits[d] = c

DigitValue(c) == (CHOOSE d \in DOMAIN Digits : Digits[d] = c) - 1

RECURSIVE str(_)
\* str(n) of an int n >= 0: its decimal digits
str(n) == IF n < 10 THEN <<Digits[n + 1]>> ELSE str(n \div 10) \o <<Digits[(n % 10) + 1]>>

RECURSIVE DecimalValue(_)
DecimalValue(s) ==
    IF s = <<>> THEN 0
    ELSE 10 * DecimalValue(SubSeq(s, 1, Len(s) - 1)) + DigitValue(s[Len(s)])

\* int(s) of a str over the characters of a chunk key (digits, "c", "." and
\* "/"): the number when s is a non-empty string of digits, ValueError otherwise
int(s) ==
    IF s # <<>> /\ \A i \in DOMAIN s : IsDigit(s[i])
    THEN Returned(DecimalValue(s))
    ELSE Raised(Error("ValueError", "invalid literal for int()"))

RECURSIVE join(_, _)
\* sep.join(parts)
join(sep, parts) ==
    IF parts = <<>> THEN <<>>
    ELSE IF Len(parts) = 1 THEN parts[1]
    ELSE parts[1] \o <<sep>> \o join(sep, Tail(parts))

RECURSIVE split(_, _)
\* s.split(sep) for a separator of one character
split(s, sep) ==
    IF \A i \in DOMAIN s : s[i] # sep THEN <<s>>
    ELSE LET i == CHOOSE j \in DOMAIN s :
                    s[j] = sep /\ \A h \in 1..(j - 1) : s[h] # sep
         IN <<SubSeq(s, 1, i - 1)>> \o split(SubSeq(s, i + 1, Len(s)), sep)

\* tuple(map(int, parts)): the tuple, or the exception of the first int() to raise
MapInt(parts) ==
    IF \E i \in DOMAIN parts : int(parts[i]).kind = "raised"
    THEN int(parts[CHOOSE i \in DOMAIN parts :
                      /\ int(parts[i]).kind = "raised"
                      /\ \A j \in 1..(i - 1) : int(parts[j]).kind = "returned"])
    ELSE Returned([i \in DOMAIN parts |-> int(parts[i]).value])

\* map(str, chunk_coords)
MapStr(coords) == [i \in DOMAIN coords |-> str(coords[i])]

\* SeparatorLiteral
Separators == {".", "/"}

\* an instance of a dataclass: its class and the values of its fields
Instance(cls, values) == [cls |-> cls, fields |-> values]

\* ChunkKeyEncodingConfiguration(separator=sep)
ChunkKeyEncodingConfiguration(sep) ==
    Instance("ChunkKeyEncodingConfiguration", [separator |-> sep])

\* DefaultChunkKeyEncoding(configuration=config) and
\* V2ChunkKeyEncoding(configuration=config): the fields of an encoding are
\* name and configuration
DefaultChunkKeyEncoding(config) ==
    Instance("DefaultChunkKeyEncoding",
             [name |-> PyStr("default"), configuration |-> config])

V2ChunkKeyEncoding(config) ==
    Instance("V2ChunkKeyEncoding", [name |-> PyStr("v2"), configuration |-> config])

\* self.<attr> on an instance: the field of that name, or AttributeError
GetAttr(self, attr) ==
    IF attr \in DOMAIN self.fields
    THEN Returned(self.fields[attr])
    ELSE Raised(Error("AttributeError", attr))

\* DefaultChunkKeyEncoding.encode_chunk_key, given the value of self.separator
DefaultEncode(sep, chunk_coords) == join(sep, <<<<"c">>>> \o MapStr(chunk_coords))

\* DefaultChunkKeyEncoding.decode_chunk_key past its first test, given the
\* value of self.separator
DefaultDecode(sep, chunk_key) == MapInt(split(Tail(chunk_key), sep))

\* V2ChunkKeyEncoding.encode_chunk_key, given the value of self.separator
V2Encode(sep, chunk_coords) ==
    LET chunk_identifier == join(sep, MapStr(chunk_coords))
    IN IF chunk_identifier = <<>> THEN <<"0">> ELSE chunk_identifier

\* V2ChunkKeyEncoding.decode_chunk_key, given the value of self.separator
V2Decode(sep, chunk_key) == MapInt(split(chunk_key, sep))

\* self.encode_chunk_key(chunk_coords)
encode_chunk_key(self, chunk_coords) ==
    LET separator == GetAttr(self, "separator") IN
    IF separator.kind = "raised" THEN separator
    ELSE IF self.cls = "DefaultChunkKeyEncoding"
         THEN Returned(DefaultEncode(separator.value, chunk_coords))
         ELSE Returned(V2Encode(separator.value, chunk_coords))

\* self.decode_chunk_key(chunk_key)
decode_chunk_key(self, chunk_key) ==
    LET separator == GetAttr(self, "separator") IN
    IF self.cls = "DefaultChunkKeyEncoding" /\ chunk_key = <<"c">> THEN Returned(<<>>)
    ELSE IF separator.kind = "raised" THEN separator
    ELSE IF self.cls = "DefaultChunkKeyEncoding"
         THEN DefaultDecode(separator.value, chunk_key)
         ELSE V2Decode(separator.value, chunk_key)

\* the encodings that can be constructed with a configuration
Encodings ==
    {DefaultChunkKeyEncoding(ChunkKeyEncodingConfiguration(PyStr(sep))) :
        sep \in Separators}
    \cup {V2ChunkKeyEncoding(ChunkKeyEncodingConfiguration(PyStr(sep))) :
        sep \in Separators}

\* ChunkCoords: the tuples of at most MaxDims coordinates, each at most MaxCoord
Coords == UNION {[1..n -> 0..MaxCoord] : n \in 0..MaxDims}

\* the characters of the keys given to decode_chunk_key
KeyChars == {"c", ".", "/", "0", "1", "2"}

\* the keys given to decode_chunk_key
InputKeys == UNION {[1..n -> KeyChars] : n \in 0..MaxKeyLen}

\* a caller encodes a coordinate tuple
CKEncode ==
    /\ ck_pc = "encode"
    /\ ck_out' = encode_chunk_key(ck_self, ck_coords)
    /\ ck_key' = IF ck_out'.kind = "returned" THEN ck_out'.value ELSE ck_key
    /\ ck_pc' = "encoded"
    /\ UNCHANGED <<ck_self, ck_coords>>
    /\ UNCHANGED <<rvars, servars>>

\* a caller decodes a key
CKDecode ==
    /\ ck_pc = "decode"
    /\ ck_out' = decode_chunk_key(ck_self, ck_key)
    /\ ck_pc' = "decoded"
    /\ UNCHANGED <<ck_self, ck_coords, ck_key>>
    /\ UNCHANGED <<rvars, servars>>

\* a caller evaluates decode_chunk_key(encode_chunk_key(chunk_coords)): an
\* exception of the inner call is the exception of the whole
CKRoundTrip ==
    /\ ck_pc = "roundtrip"
    /\ LET encoded == encode_chunk_key(ck_self, ck_coords) IN
        IF encoded.kind = "raised"
        THEN ck_out' = encoded /\ UNCHANGED ck_key
        ELSE ck_out' = decode_chunk_key(ck_self, encoded.value) /\ ck_key' = encoded.value
    /\ ck_pc' = "roundtripped"
    /\ UNCHANGED <<ck_self, ck_coords>>
    /\ UNCHANGED <<rvars, servars>>

-----------------------------------------------------------------------------
(* zarr/_serialization.py: values and types *)

\* Python values beside None, str and int: a list, a tuple, a set, a dict (its
\* pairs <<key, value>> in insertion order, the keys distinct), a complex, a
\* datetime.date (by its ISO text), a numpy dtype (by its name) and a member
\* of an Enum (by its class and value).  A number is a PyInt: int and float
\* are not told apart.  A str of the codec is a string of the model; Chars
\* gives its characters.
PyList(items) == [tag |-> "list", v |-> items]
PyTuple(items) == [tag |-> "tuple", v |-> items]
PySet(members) == [tag |-> "set", v |-> members]
PyDict(pairs) == [tag |-> "dict", v |-> pairs]
PyComplex(re, im) == [tag |-> "complex", v |-> <<re, im>>]
PyDate(iso) == [tag |-> "date", v |-> iso]
PyDtype(name) == [tag |-> "dtype", v |-> name]
EnumMember(cls, value) == [tag |-> "enum", v |-> <<cls, value>>]

\* what json.dumps(...).encode("utf-8") gives: the text of a value tree
JsonBytes(tree) == [tag |-> "json", v |-> tree]

\* Body(value), the value worked out once and then named: what an assignment
\* to a local variable does
Bind(value, Body(_)) == CHOOSE result \in {Body(x) : x \in {value}} : TRUE

\* the kind of a value: its tag, or "object" for an instance of a dataclass
KindOf(v) == IF "tag" \in DOMAIN v THEN v.tag ELSE "object"

\* the characters of a str, for the strings of the value trees given to
\* decode: those of more than one character are listed
Chars(s) ==
    CASE s = "" -> <<>>
      [] s = "12" -> <<"1", "2">>
      [] s = "v2" -> <<"v", "2">>
      [] s = "zz" -> <<"z", "z">>
      [] s = "default" -> <<"d", "e", "f", "a", "u", "l", "t">>
      [] OTHER -> <<s>>

\* d.get(key) of a dict: the value of the key, or None
DictGet(d, key) ==
    IF \E i \in DOMAIN d.v : d.v[i][1] = key
    THEN d.v[CHOOSE i \in DOMAIN d.v : d.v[i][1] = key][2]
    ELSE None

\* key in d
DictHas(d, key) == \E i \in DOMAIN d.v : d.v[i][1] = key

\* hash(v) succeeds: a list, a dict and a set are unhashable, and so is an
\* instance of a dataclass of the model (those that are frozen hold an
\* instance of one that is not)
Hashable(v) ==
    CASE KindOf(v) \in {"list", "dict", "set"} -> FALSE
      [] KindOf(v) = "object" -> FALSE
      [] KindOf(v) = "tuple" -> \A i \in DOMAIN v.v : KindOf(v.v[i]) \notin {"list", "dict", "set"}
      [] OTHER -> TRUE

\* for x in v: the elements of a list or tuple, the characters of a str, the
\* keys of a dict; TypeError for a value that is not iterable.  (The value
\* trees given to decode hold no set.)
Iter(v) ==
    CASE KindOf(v) \in {"list", "tuple"} -> Returned(v.v)
      [] KindOf(v) = "str" ->
            Returned([i \in DOMAIN Chars(v.v) |-> PyStr(Chars(v.v)[i])])
      [] KindOf(v) = "dict" -> Returned([i \in DOMAIN v.v |-> PyStr(v.v[i][1])])
      [] OTHER -> Raised(Error("TypeError", "object is not iterable"))

\* len(v)
PyLen(v) ==
    CASE KindOf(v) \in {"list", "tuple", "dict"} -> Returned(Len(v.v))
      [] KindOf(v) = "str" -> Returned(Len(Chars(v.v)))
      [] OTHER -> Raised(Error("TypeError", "object has no len()"))

\* The types decode_value is given.  A class; an Enum class; typing.Any;
\* Literal[...]; tuple[...], list[...] and set[...]; X | Y; a dataclass.
Class(name) == [k |-> "class", name |-> name]
EnumType(name) == [k |-> "enum", name |-> name]
AnyType == [k |-> "Any"]
Literal(args) == [k |-> "Literal", args |-> args]
GenericAlias(origin, args) == [k |-> "generic", origin |-> origin, args |-> args]
UnionType(args) == [k |-> "union", args |-> args]
Dataclass(name) == [k |-> "dataclass", name |-> name]

NoneType == Class("NoneType")
IntType == Class("int")
StrType == Class("str")
ComplexType == Class("complex")
DateType == Class("date")
DtypeType == Class("dtype")

\* enum.Enum("Dynamic", {"a": "A"}): the values of the members of an Enum class
EnumValues(name) == IF name = "Dynamic" THEN {PyStr("A")} ELSE {}

\* the names numpy knows a dtype by, among the strings of the model
DtypeNames == {"int64"}

\* typing.get_origin and typing.get_args
get_origin(type) ==
    CASE type.k = "generic" -> type.origin
      [] type.k = "union" -> "UnionType"
      [] type.k = "Literal" -> "Literal"
      [] OTHER -> "None"

\* (of tuple[()] the arguments are (), as Python 3.11 and later give them)
get_args(type) ==
    IF type.k \in {"generic", "union", "Literal"} THEN type.args ELSE <<>>

\* a field of a dataclass: its name, its type hint, and whether the hint is
\* Annotated[..., Tag]
Field(name, type, tagged) == [name |-> name, type |-> type, tagged |-> tagged]

\* SeparatorLiteral
SeparatorLiteral == Literal(<<PyStr("."), PyStr("/")>>)

\* CHUNK_KEY_ENCODINGS
CHUNK_KEY_ENCODINGS ==
    UnionType(<<Dataclass("DefaultChunkKeyEncoding"), Dataclass("V2ChunkKeyEncoding")>>)

\* dataclasses.fields(cls) with the hints typing.get_type_hints gives them.
\* The dataclasses are those of chunk_key_encodings.py, WithTuples of the
\* tests, two variants A and B tagged by their field x, a record for each
\* kind of leaf the encoder converts, and a record with a field of the sum
\* type CHUNK_KEY_ENCODINGS.
dataclass_fields(cls) ==
    CASE cls = "ChunkKeyEncodingConfiguration" ->
            <<Field("separator", SeparatorLiteral, FALSE)>>
      [] cls = "ChunkKeyEncoding" ->
            <<Field("name", StrType, TRUE),
              Field("configuration", Dataclass("ChunkKeyEncodingConfiguration"), FALSE)>>
      [] cls = "DefaultChunkKeyEncoding" ->
            <<Field("name", Literal(<<PyStr("default")>>), TRUE),
              Field("configuration", Dataclass("ChunkKeyEncodingConfiguration"), FALSE)>>
      [] cls = "V2ChunkKeyEncoding" ->
            <<Field("name", Literal(<<PyStr("v2")>>), TRUE),
              Field("configuration", Dataclass("ChunkKeyEncodingConfiguration"), FALSE)>>
      [] cls = "WithTuples" ->
            <<Field("x", GenericAlias("tuple", <<IntType, Ellipsis>>), FALSE),
              Field("y", GenericAlias("tuple", <<IntType, StrType>>), FALSE),
              Field("z", GenericAlias("tuple", <<IntType, IntType, StrType>>), FALSE),
              Field("a", GenericAlias("set", <<IntType>>), FALSE),
              Field("b", GenericAlias("list", <<StrType>>), FALSE)>>
      [] cls = "A" ->
            <<Field("x", Literal(<<PyStr("a")>>), TRUE), Field("n", IntType, FALSE)>>
      [] cls = "B" ->
            <<Field("x", Literal(<<PyStr("b")>>), TRUE), Field("s", StrType, FALSE)>>
      [] cls = "WithEnum" -> <<Field("e", EnumType("Dynamic"), FALSE)>>
      [] cls = "WithDtype" -> <<Field("t", DtypeType, FALSE)>>
      [] cls = "WithComplex" -> <<Field("z", ComplexType, FALSE)>>
      [] cls = "WithDate" -> <<Field("d", DateType, FALSE)>>
      [] cls = "WithChunkKeyEncoding" ->
            <<Field("chunk_key_encoding", CHUNK_KEY_ENCODINGS, FALSE)>>
      [] OTHER -> <<>>

\* the names of the fields of a dataclass
FieldNames(cls) == {dataclass_fields(cls)[i].name : i \in DOMAIN dataclass_fields(cls)}

\* the fields of a dataclass that have a default, and the default
FieldDefaults(cls) ==
    CASE cls = "ChunkKeyEncodingConfiguration" -> [separator |-> PyStr(".")]
      [] cls = "ChunkKeyEncoding" ->
            [configuration |-> ChunkKeyEncodingConfiguration(PyStr("."))]
      [] cls = "DefaultChunkKeyEncoding" ->
            [name |-> PyStr("default"),
             configuration |-> ChunkKeyEncodingConfiguration(PyStr("."))]
      [] cls = "V2ChunkKeyEncoding" ->
            [name |-> PyStr("v2"),
             configuration |-> ChunkKeyEncodingConfiguration(PyStr("."))]
      [] OTHER -> <<>>

\* DefaultChunkKeyEncoding.__post_init__ and ChunkKeyEncoding.__post_init__:
\* only the default scheme tests its name
post_init(self) ==
    IF self.cls = "DefaultChunkKeyEncoding" /\ self.fields.name # PyStr("default")
    THEN Raised(Error("TypeError", ""))
    ELSE Returned(self)

\* cls(**kwargs): the __init__ a dataclass is given, then __post_init__
New(cls, kwargs) ==
    LET defaults == FieldDefaults(cls) IN
    IF ~(DOMAIN kwargs \subseteq FieldNames(cls))
    THEN Raised(Error("TypeError", "unexpected keyword argument"))
    ELSE IF ~(FieldNames(cls) \subseteq DOMAIN kwargs \cup DOMAIN defaults)
    THEN Raised(Error("TypeError", "missing required argument"))
    ELSE post_init(Instance(cls,
            [n \in FieldNames(cls) |->
                IF n \in DOMAIN kwargs THEN kwargs[n] ELSE defaults[n]]))

-----------------------------------------------------------------------------
(* zarr/_serialization.py: encode *)

RECURSIVE asdict(_)
\* dataclasses.asdict: an instance becomes the dict of its fields, in the order
\* of the fields, and so do the instances within it, within lists, tuples and
\* dicts; every other value is copied
asdict(v) ==
    CASE KindOf(v) = "object" ->
            LET fs == dataclass_fields(v.cls) IN
            PyDict([i \in DOMAIN fs |-> <<fs[i].name, asdict(v.fields[fs[i].name])>>])
      [] KindOf(v) = "list" -> PyList([i \in DOMAIN v.v |-> asdict(v.v[i])])
      [] KindOf(v) = "tuple" -> PyTuple([i \in DOMAIN v.v |-> asdict(v.v[i])])
      [] KindOf(v) = "dict" ->
            PyDict([i \in DOMAIN v.v |-> <<v.v[i][1], asdict(v.v[i][2])>>])
      [] OTHER -> v

\* the orders a set of numbers may be iterated in: the permutations of the
\* numbers of the model, a set being iterated in the order of one of them
SetOrders(numbers) ==
    {o \in [1..Cardinality(numbers) -> numbers] :
        \A i, j \in DOMAIN o : i # j => o[i] # o[j]}

\* list(v) of a set, iterated in the order `order`
ListOfSet(members, order) ==
    LET Member(x) == PyInt(x) \in members
    IN PyList([i \in DOMAIN SelectSeq(order, Member) |->
                    PyInt(SelectSeq(order, Member)[i])])

\* encode_value: the conversion registered for the class of v, or v itself.
\* (numpy arrays and scalars, and numcodecs codecs, are not among the values
\* of the model.)
encode_value(v, order) ==
    CASE KindOf(v) = "dtype" -> PyStr(v.v)
      [] KindOf(v) = "complex" -> PyList(<<PyInt(v.v[1]), PyInt(v.v[2])>>)
      [] KindOf(v) = "enum" -> v.v[2]
      [] KindOf(v) = "date" -> PyStr(v.v)
      [] KindOf(v) = "set" -> ListOfSet(v.v, order)
      [] OTHER -> v

\* to_dict: the values of dataclasses.asdict(obj), each through encode_value;
\* a value that is an instance of a dataclass is not stored in the result
to_dict(obj, order) ==
    LET items == asdict(obj).v
        Stored(item) == KindOf(item[2]) # "object"
        kept == SelectSeq(items, Stored)
    IN PyDict([i \in DOMAIN kept |-> <<kept[i][1], encode_value(kept[i][2], order)>>])

RECURSIVE JsonSerializable(_)
\* json.dumps accepts v: None, a number, a str, and a list, a tuple or a dict
\* of such values
JsonSerializable(v) ==
    CASE KindOf(v) \in {"None", "int", "str"} -> TRUE
      [] KindOf(v) \in {"list", "tuple"} -> \A i \in DOMAIN v.v : JsonSerializable(v.v[i])
      [] KindOf(v) = "dict" -> \A i \in DOMAIN v.v : JsonSerializable(v.v[i][2])
      [] OTHER -> FALSE

RECURSIVE JsonTree(_)
\* the value tree of the text json.dumps writes for v: a tuple is written as
\* an array
JsonTree(v) ==
    CASE KindOf(v) \in {"list", "tuple"} -> PyList([i \in DOMAIN v.v |-> JsonTree(v.v[i])])
      [] KindOf(v) = "dict" ->
            PyDict([i \in DOMAIN v.v |-> <<v.v[i][1], JsonTree(v.v[i][2])>>])
      [] OTHER -> v

\* json.dumps(v).encode("utf-8")
json_dumps(v) ==
    IF JsonSerializable(v) THEN Returned(JsonBytes(JsonTree(v)))
    ELSE Raised(Error("TypeError", "Object is not JSON serializable"))

\* json.loads(data) of bytes json.dumps wrote
json_loads(data) == data.v

\* encode(obj)
encode(obj, order) == Bind(to_dict(obj, order), LAMBDA result : json_dumps(result))

-----------------------------------------------------------------------------
(* zarr/_serialization.py: decode *)

\* int(v)
IntOf(v) ==
    CASE KindOf(v) = "int" -> Returned(v)
      [] KindOf(v) = "str" ->
            IF int(Chars(v.v)).kind = "returned"
            THEN Returned(PyInt(int(Chars(v.v)).value))
            ELSE int(Chars(v.v))
      [] OTHER -> Raised(Error("TypeError", "int() argument must be a string or a number"))

\* str(v): of a collection, the model has the text of the empty list and of
\* the empty dict only
StrOf(v) ==
    CASE KindOf(v) = "str" -> Returned(v)
      [] KindOf(v) = "None" -> Returned(PyStr("None"))
      [] KindOf(v) = "int" /\ v.v < 10 -> Returned(PyStr(str(v.v)[1]))
      [] KindOf(v) = "int" /\ v.v = 12 -> Returned(PyStr("12"))
      [] KindOf(v) = "list" /\ v.v = <<>> -> Returned(PyStr("[]"))
      [] KindOf(v) = "dict" /\ v.v = <<>> -> Returned(PyStr("{}"))

\* complex(v)
ComplexOf(v) ==
    CASE KindOf(v) = "complex" -> Returned(v)
      [] KindOf(v) = "int" -> Returned(PyComplex(v.v, 0))
      [] KindOf(v) = "str" ->
            IF int(Chars(v.v)).kind = "returned"
            THEN Returned(PyComplex(int(Chars(v.v)).value, 0))
            ELSE Raised(Error("ValueError", "complex() arg is a malformed string"))
      [] OTHER -> Raised(Error("TypeError", "complex() first argument must be a string or a number"))

\* numpy.dtype(v), for None, a number and the names of DtypeNames
DtypeOf(v) ==
    CASE KindOf(v) = "dtype" -> Returned(v)
      [] KindOf(v) = "None" -> Returned(PyDtype("float64"))
      [] KindOf(v) = "str" /\ v.v \in DtypeNames -> Returned(PyDtype(v.v))
      [] KindOf(v) = "int" -> Raised(Error("TypeError", "Cannot interpret as a data type"))

\* tuple(v)
TupleOf(v) == IF Iter(v).kind = "raised" THEN Iter(v) ELSE Returned(PyTuple(Iter(v).value))

\* type(v) for a type that is called: a class makes a value of v or raises; a
\* generic alias calls its origin; a union is not callable
CallType(type, v) ==
    CASE type = IntType -> IntOf(v)
      [] type = StrType -> StrOf(v)
      [] type = ComplexType -> ComplexOf(v)
      [] type = DtypeType -> DtypeOf(v)
      [] type = DateType ->
            Raised(Error("TypeError", "an integer is required; month and day are missing"))
      [] type = NoneType -> Raised(Error("TypeError", "NoneType takes no arguments"))
      [] type.k = "generic" /\ type.origin = "tuple" -> TupleOf(v)
      [] OTHER -> Raised(Error("TypeError", "object is not callable"))

\* type(v) for an Enum class: the member whose value is v
EnumCall(type, v) ==
    IF v \in EnumValues(type.name)
    THEN Returned(EnumMember(type.name, v))
    ELSE Raised(Error("ValueError", "not a valid member"))

\* of the results of a loop that stops at the first exception: that exception,
\* or the sequence of the values
Collect(results) ==
    IF \E i \in DOMAIN results : results[i].kind = "raised"
    THEN results[CHOOSE i \in DOMAIN results :
                    /\ results[i].kind = "raised"
                    /\ \A j \in 1..(i - 1) : results[j].kind = "returned"]
    ELSE Returned([i \in DOMAIN results |-> results[i].value])

\* the fields of a variant hinted Annotated[..., Tag]; NoneType has no hints
TagTypes(variant) ==
    LET variant_types == IF variant.k = "dataclass" THEN dataclass_fields(variant.name)
                         ELSE <<>>
        IsTag(f) == f.tagged
    IN SelectSeq(variant_types, IsTag)

\* one turn of the loop over the variants of a tagged union, tag_field_name
\* being the tag field of the first variant: <<tag, variant>> for the one
\* field of the variant hinted Annotated[Literal[tag], Tag]
VariantTag(variant, tag_field_name) ==
    IF Len(TagTypes(variant)) # 1 THEN Raised(Error("TypeError", "todo"))
    ELSE IF TagTypes(variant)[1].name # tag_field_name
    THEN Raised(Error("TypeError", "todo"))
    ELSE LET t2 == TagTypes(variant)[1].type IN
         IF get_origin(t2) = "Literal"
         THEN IF Len(get_args(t2)) # 1 THEN Raised(Error("TypeError", "todo"))
              ELSE Returned(<<get_args(t2)[1], variant>>)
         ELSE Raised(Error("TypeError", "todo!"))

\* the loop over the variants: the exception of the first variant to raise,
\* or tag_field_name and tags_to_variants (of two entries with one tag the
\* later one counts)
TagTable(variants) ==
    IF Len(TagTypes(variants[1])) # 1 THEN Raised(Error("TypeError", "todo"))
    ELSE LET tag_field_name == TagTypes(variants[1])[1].name
             entries == Collect([i \in DOMAIN variants |->
                                    VariantTag(variants[i], tag_field_name)])
         IN IF entries.kind = "raised" THEN entries
            ELSE Returned([tag_field_name |-> tag_field_name,
                           tags_to_variants |-> entries.value])

RECURSIVE decode_value(_, _)
RECURSIVE from_dict(_, _)

RECURSIVE DecodeEach(_, _)
\* decode_value(types[i], values[i]) for each i in turn, for as many i as both
\* sequences have: the exception of the first call to raise, or the sequence
\* of the values
DecodeEach(types, values) ==
    IF types = <<>> \/ values = <<>> THEN Returned(<<>>)
    ELSE Bind(decode_value(Head(types), Head(values)), LAMBDA first :
            IF first.kind = "raised" THEN first
            ELSE Bind(DecodeEach(Tail(types), Tail(values)), LAMBDA rest :
                    IF rest.kind = "raised" THEN rest
                    ELSE Returned(<<first.value>> \o rest.value)))

\* the tagged union that gives every mapping to its first variant
DecodeTaggedFirstVariant(variants, v) ==
    IF KindOf(v) # "dict" THEN Raised(Error("TypeError", "todo"))
    ELSE decode_value(variants[1], v)

\* decode_value for a union of dataclasses (and NoneType): the input must be a
\* dict; the tags of the variants are collected; the variant of the input's
\* tag decodes the input
DecodeTagged(variants, v) ==
    IF KindOf(v) # "dict" THEN Raised(Error("TypeError", "todo"))
    ELSE Bind(TagTable(variants), LAMBDA table :
         IF table.kind = "raised" THEN table
         ELSE IF ~DictHas(v, table.value.tag_field_name)
              THEN Raised(Error("KeyError", table.value.tag_field_name))
         ELSE LET tag_value == DictGet(v, table.value.tag_field_name)
                  Matches(e) == e[1] = tag_value
                  matching == SelectSeq(table.value.tags_to_variants, Matches)
              IN IF ~Hashable(tag_value)
                 THEN Raised(Error("TypeError", "unhashable type"))
                 ELSE IF matching = <<>> THEN Raised(Error("KeyError", "tag"))
                 ELSE decode_value(matching[Len(matching)][2], v))

\* decode_value for tuple[...]: every element by the one type of tuple[T, ...],
\* or, the lengths being equal, each element by the type of its place
DecodeTuple(args, v) ==
    IF Len(args) = 2 /\ args[2] = Ellipsis
    THEN IF Iter(v).kind = "raised" THEN Iter(v)
         ELSE Bind(DecodeEach([i \in DOMAIN Iter(v).value |-> args[1]], Iter(v).value),
                   LAMBDA elements :
                        IF elements.kind = "raised" THEN elements
                        ELSE Returned(PyTuple(elements.value)))
    ELSE IF PyLen(v).kind = "raised" THEN PyLen(v)
    ELSE IF Len(args) # PyLen(v).value THEN Raised(Error("TypeError", "..."))
    ELSE Bind(DecodeEach(args, Iter(v).value), LAMBDA elements :
            IF elements.kind = "raised" THEN elements
            ELSE Returned(PyTuple(elements.value)))

\* decode_value for list[T] and set[T]
DecodeListOrSet(origin, args, v) ==
    IF Len(args) # 1 THEN Raised(Error("TypeError", "todo"))
    ELSE IF Iter(v).kind = "raised" THEN Iter(v)
    ELSE Bind(DecodeEach([i \in DOMAIN Iter(v).value |-> args[1]], Iter(v).value),
              LAMBDA elements :
                IF elements.kind = "raised" THEN elements
                ELSE IF origin = "list" THEN Returned(PyList(elements.value))
                ELSE IF \E i \in DOMAIN elements.value : ~Hashable(elements.value[i])
                THEN Raised(Error("TypeError", "unhashable type"))
                ELSE Returned(PySet(Range(elements.value))))

\* decode_value(type, v)
decode_value(type, v) ==
    LET origin == get_origin(type)
        args == get_args(type)
        IsReal(t) == t # NoneType
    IN
    IF type.k = "enum" THEN EnumCall(type, v)
    ELSE IF origin \in {"tuple", "list", "set"} /\ args # <<>>
    THEN IF origin = "tuple" THEN DecodeTuple(args, v)
         ELSE DecodeListOrSet(origin, args, v)
    ELSE IF origin = "UnionType" /\ Len(args) = 2 /\ \E i \in DOMAIN args : args[i] = NoneType
    THEN IF v = None THEN Returned(None)
         ELSE decode_value(SelectSeq(args, IsReal)[1], v)
    ELSE IF origin = "UnionType"
            /\ \A i \in DOMAIN args : args[i] = NoneType \/ args[i].k = "dataclass"
    THEN DecodeTagged(args, v)
    ELSE IF type = AnyType THEN Returned(v)
    ELSE IF origin = "Literal"
    THEN IF \E i \in DOMAIN args : args[i] = v THEN Returned(v)
         ELSE Raised(Error("TypeError", "TODO"))
    ELSE IF type.k = "dataclass" THEN from_dict(v, type.name)
    ELSE CallType(type, v)

\* from_dict(data, type) for the dataclass named cls: every field decoded
\* from data.get(name), in the order of the fields, then type(**args).  (No
\* dataclass of the model has a field named codecs.)
from_dict(data, cls) ==
    LET fs == dataclass_fields(cls) IN
    IF KindOf(data) # "dict"
    THEN Raised(Error("AttributeError", "get"))
    ELSE Bind(DecodeEach([i \in DOMAIN fs |-> fs[i].type],
                         [i \in DOMAIN fs |-> DictGet(data, fs[i].name)]),
              LAMBDA args :
                IF args.kind = "raised" THEN args
                ELSE New(cls, [n \in FieldNames(cls) |->
                        args.value[CHOOSE i \in DOMAIN fs : fs[i].name = n]]))

\* decode(data, type)
decode(data, cls) == Bind(json_loads(data), LAMBDA raw : from_dict(raw, cls))

-----------------------------------------------------------------------------
(* zarr/core/chunk_key_encodings.py: construction *)

\* parse_named_configuration(data, require_configuration=False): the name and
\* the configuration of a named configuration, the configuration None when
\* the dict has none
parse_named_configuration(data) ==
    IF KindOf(data) # "dict" THEN Raised(Error("TypeError", "Expected dict"))
    ELSE IF ~DictHas(data, "name")
    THEN Raised(Error("ValueError", "Named configuration does not have a 'name' key"))
    ELSE IF DictHas(data, "configuration") /\ KindOf(DictGet(data, "configuration")) # "dict"
    THEN Raised(Error("TypeError", "Expected dict"))
    ELSE Returned(<<DictGet(data, "name"), DictGet(data, "configuration")>>)

\* **config_parsed: the keyword arguments a dict gives
KwArgs(d) ==
    [n \in {d.v[i][1] : i \in DOMAIN d.v} |-> DictGet(d, n)]

\* ChunkKeyEncoding.from_dict(data)
ChunkKeyEncoding_from_dict(data) ==
    IF KindOf(data) = "object" THEN Returned(data)
    ELSE LET parsed == parse_named_configuration(data) IN
         IF parsed.kind = "raised" THEN parsed
         ELSE LET name_parsed == parsed.value[1]
                  config_parsed == parsed.value[2]
              IN IF name_parsed = PyStr("default")
                 THEN New("DefaultChunkKeyEncoding",
                          KwArgs(IF config_parsed = None
                                 THEN PyDict(<< <<"separator", PyStr("/")>> >>)
                                 ELSE config_parsed))
                 ELSE IF name_parsed = PyStr("v2")
                 THEN New("V2ChunkKeyEncoding",
                          KwArgs(IF config_parsed = None
                                 THEN PyDict(<< <<"separator", PyStr(".")>> >>)
                                 ELSE config_parsed))
                 ELSE Raised(Error("ValueError", "Unknown chunk key encoding"))

-----------------------------------------------------------------------------
(* The records and the value trees the value codec is given *)

\* the numbers and the strings held by the records
Numbers == 0..MaxInt
Texts == {"a", "b"}

\* the sequences over S of at most n elements
SeqsUpTo(S, n) == UNION {[1..m -> S] : m \in 0..n}

\* the configurations and the encodings that can be constructed, with a
\* separator of SeparatorLiteral or another one
AnyConfigurations == {ChunkKeyEncodingConfiguration(PyStr(sep)) : sep \in {".", "/", "-"}}

\* the records given to encode: WithTuples of the tests, the variants A and
\* B, a record of each kind of leaf, the encodings, and a record holding one
Records(cls) ==
    CASE cls = "WithTuples" ->
            {Instance(cls, [x |-> PyTuple(x), y |-> PyTuple(<<y[1], PyStr(s)>>),
                            z |-> PyTuple(<<y[1], y[2], PyStr(s)>>),
                            a |-> PySet(a), b |-> PyList(b)]) :
                x \in SeqsUpTo({PyInt(n) : n \in Numbers}, MaxItems),
                y \in [1..2 -> {PyInt(n) : n \in Numbers}],
                s \in Texts,
                a \in SUBSET {PyInt(n) : n \in Numbers},
                b \in SeqsUpTo({PyStr(t) : t \in Texts}, MaxItems)}
      [] cls = "A" -> {Instance(cls, [x |-> PyStr("a"), n |-> PyInt(n)]) : n \in Numbers}
      [] cls = "B" -> {Instance(cls, [x |-> PyStr("b"), s |-> PyStr(s)]) : s \in Texts}
      [] cls = "WithEnum" -> {Instance(cls, [e |-> EnumMember("Dynamic", PyStr("A"))])}
      [] cls = "WithDtype" -> {Instance(cls, [t |-> PyDtype("int64")])}
      [] cls = "WithComplex" ->
            {Instance(cls, [z |-> PyComplex(re, im)]) : re \in Numbers, im \in Numbers}
      [] cls = "WithDate" -> {Instance(cls, [d |-> PyDate("2020-01-02")])}
      [] cls = "DefaultChunkKeyEncoding" ->
            {e \in Encodings : e.cls = "DefaultChunkKeyEncoding"}
      [] cls = "V2ChunkKeyEncoding" -> {e \in Encodings : e.cls = "V2ChunkKeyEncoding"}
      [] cls = "WithChunkKeyEncoding" ->
            {Instance(cls, [chunk_key_encoding |-> e]) : e \in Encodings}

RecordClasses ==
    {"WithTuples", "A", "B", "WithEnum", "WithDtype", "WithComplex", "WithDate",
     "DefaultChunkKeyEncoding", "V2ChunkKeyEncoding", "WithChunkKeyEncoding"}

\* the scalars of a value tree: null, the numbers, and strings
JsonStrings == {"a", "b", "12", "default", "v2", "zz", ".", "/", "-"}
JsonScalars ==
    {None} \cup {PyInt(n) : n \in Numbers} \cup {PyStr(s) : s \in JsonStrings}

\* the sequences of a value tree: at most MaxLen numbers and strings
JsonArrays ==
    {PyList(l) : l \in SeqsUpTo({PyInt(n) : n \in Numbers} \cup {PyStr("a"), PyStr("12")},
                                MaxLen)}

\* the mappings with the keys `keys`, in that order, each absent or with one
\* of the values given for it
RECURSIVE Mappings(_, _)
Mappings(keys, values) ==
    IF keys = <<>> THEN {<<>>}
    ELSE LET rest == Mappings(Tail(keys), values) IN
         rest \cup {<< <<Head(keys), v>> >> \o m : v \in values[Head(keys)], m \in rest}

\* the value trees given for a configuration: a mapping with or without a
\* separator, and values that are no mapping
ConfigurationTrees ==
    {PyDict(m) : m \in Mappings(<<"separator">>, [separator |-> JsonScalars])}
    \cup {None, PyInt(0), PyList(<<>>)}

\* the value trees given for a dataclass: its fields absent or present, in
\* the order of the fields, with fitting and unfitting values
Trees(cls) ==
    CASE cls = "A" ->
            {PyDict(m) : m \in Mappings(<<"x", "n">>,
                [x |-> JsonScalars, n |-> JsonScalars \cup {PyList(<<>>), PyDict(<<>>)}])}
      [] cls = "B" ->
            {PyDict(m) : m \in Mappings(<<"x", "s">>,
                [x |-> JsonScalars, s |-> JsonScalars \cup {PyList(<<>>), PyDict(<<>>)}])}
      [] cls = "ChunkKeyEncodingConfiguration" -> ConfigurationTrees
      [] cls \in {"DefaultChunkKeyEncoding", "V2ChunkKeyEncoding"} ->
            {PyDict(m) : m \in Mappings(<<"name", "configuration">>,
                [name |-> JsonScalars, configuration |-> ConfigurationTrees])}
            \cup {None, PyList(<<>>)}

DecodedClasses ==
    {"A", "B", "ChunkKeyEncodingConfiguration", "DefaultChunkKeyEncoding",
     "V2ChunkKeyEncoding"}

\* the value trees given to decode_value, whatever the type
JsonValues ==
    JsonScalars \cup JsonArrays \cup Trees("A") \cup Trees("B")
        \cup Trees("DefaultChunkKeyEncoding")

\* the types decode_value is given
AorB == UnionType(<<Dataclass("A"), Dataclass("B")>>)
AorBorNone == UnionType(<<Dataclass("A"), Dataclass("B"), NoneType>>)
AorNone == UnionType(<<Dataclass("A"), NoneType>>)

ValueTypes ==
    {IntType, StrType, ComplexType, DateType, DtypeType, EnumType("Dynamic"), AnyType,
     SeparatorLiteral,
     GenericAlias("tuple", <<IntType, Ellipsis>>),
     GenericAlias("tuple", <<IntType, StrType>>),
     GenericAlias("tuple", <<IntType, IntType, StrType>>),
     GenericAlias("tuple", <<>>),
     GenericAlias("set", <<IntType>>),
     GenericAlias("list", <<StrType>>),
     UnionType(<<IntType, StrType>>),
     AorB, AorBorNone, AorNone, CHUNK_KEY_ENCODINGS, Dataclass("A")}

\* the value trees given to decode_value for a type: every tree, but for a
\* class called with the tree only those its call is modelled for
InputsFor(type) ==
    CASE type = StrType -> JsonScalars \cup {PyList(<<>>), PyDict(<<>>)}
      [] type = DtypeType ->
            {None, PyStr("int64")} \cup {PyInt(n) : n \in Numbers}
      [] type = EnumType("Dynamic") -> JsonValues \cup {PyStr("A")}
      [] type = DateType -> JsonValues \cup {PyStr("2020-01-02")}
      [] OTHER -> JsonValues

\* the keyword arguments a caller constructs an encoding or a configuration with
KeywordArguments(cls) ==
    IF cls = "ChunkKeyEncodingConfiguration"
    THEN {KwArgs(PyDict(m)) : m \in Mappings(<<"separator">>,
                [separator |-> {PyStr(s) : s \in {".", "/", "-"}}])}
    ELSE {KwArgs(PyDict(m)) : m \in Mappings(<<"name", "configuration", "separator">>,
                [name |-> {PyStr(s) : s \in {"default", "v2", "zz"}},
                 configuration |-> AnyConfigurations \cup {None},
                 separator |-> {PyStr(s) : s \in {".", "/"}}])}

ConstructedClasses ==
    {"ChunkKeyEncodingConfiguration", "DefaultChunkKeyEncoding", "V2ChunkKeyEncoding"}

\* what ChunkKeyEncoding.from_dict is given: a value tree, or an encoding
FromDictInputs == Trees("DefaultChunkKeyEncoding") \cup Encodings

-----------------------------------------------------------------------------
(* The calls of the value codec *)

\* a caller evaluates decode(encode(obj), type(obj)); the sets of obj are
\* iterated in some order
SerRoundTrip ==
    /\ ser_pc = "roundtrip"
    /\ \E order \in SetOrders(Numbers) :
        \E encoded \in {encode(ser_in, order)} :
        IF encoded.kind = "raised"
        THEN ser_out' = encoded /\ UNCHANGED ser_doc
        ELSE /\ ser_doc' = encoded.value
             /\ ser_out' = decode(encoded.value, ser_type.name)
    /\ ser_pc' = "roundtripped"
    /\ UNCHANGED <<ser_type, ser_in>>
    /\ UNCHANGED <<rvars, ckvars>>

\* a caller evaluates decode(data, type)
SerDecode ==
    /\ ser_pc = "decode"
    /\ ser_out' = decode(ser_in, ser_type.name)
    /\ ser_pc' = "decoded"
    /\ UNCHANGED <<ser_type, ser_in, ser_doc>>
    /\ UNCHANGED <<rvars, ckvars>>

\* a caller evaluates decode_value(type, v)
SerDecodeValue ==
    /\ ser_pc = "decode_value"
    /\ ser_out' = decode_value(ser_type, ser_in)
    /\ ser_pc' = "value_decoded"
    /\ UNCHANGED <<ser_type, ser_in, ser_doc>>
    /\ UNCHANGED <<rvars, ckvars>>

\* a caller evaluates ChunkKeyEncoding.from_dict(data)
CKFromDict ==
    /\ ser_pc = "from_dict"
    /\ ser_out' = ChunkKeyEncoding_from_dict(ser_in)
    /\ ser_pc' = "from_dict_done"
    /\ UNCHANGED <<ser_type, ser_in, ser_doc>>
    /\ UNCHANGED <<rvars, ckvars>>

\* a caller constructs an encoding or a configuration: cls(**kwargs)
CKConstruct ==
    /\ ser_pc = "construct"
    /\ ser_out' = New(ser_type.name, ser_in)
    /\ ser_pc' = "constructed"
    /\ UNCHANGED <<ser_type, ser_in, ser_doc>>
    /\ UNCHANGED <<rvars, ckvars>>

-----------------------------------------------------------------------------
(* Specifications *)

\* the chunk key encodings are idle while the resolver runs
CKIdle ==
    /\ ck_self = DefaultChunkKeyEncoding(ChunkKeyEncodingConfiguration(PyStr(".")))
    /\ ck_coords = <<>>
    /\ ck_key = <<>>
    /\ ck_out = Pending
    /\ ck_pc = "idle"

\* the value codec is idle while the resolver or the chunk key encodings run
SerIdle ==
    /\ ser_type = NoneType
    /\ ser_in = None
    /\ ser_doc = None
    /\ ser_out = Pending
    /\ ser_pc = "idle"

\* the resolver's requests before they are called; those outside `called` never run
InitRequests(called, faults) ==
    /\ store \in SUBSET KEYS
    /\ budget = faults
    /\ desc \in [Requests -> [node_type : NodeTypes, zarr_format : ZarrFormats]]
    /\ \A r \in Requests \ called : desc[r] = [node_type |-> None, zarr_format |-> None]
    /\ pc = [r \in Requests |-> IF r \in called THEN "ready" ELSE "absent"]
    /\ node_type = [r \in Requests |-> desc[r].node_type]
    /\ paths = [r \in Requests |-> <<>>]
    /\ task = [r \in Requests |-> <<>>]
    /\ exc = [r \in Requests |-> None]
    /\ gets = [r \in Requests |-> [k \in KEYS |-> 0]]
    /\ outcome = [r \in Requests |-> Pending]

\* one resolution request, with any arguments, against any store
Init == InitRequests({"r1"}, MaxFaults) /\ CKIdle /\ SerIdle

\* every request is called, each with any arguments, against one store
DescRank(d) ==
    LET nr == CASE d.node_type = ARRAY -> 0 [] d.node_type = GROUP -> 1 [] OTHER -> 2
        fr == CASE d.zarr_format = V2 -> 0 [] d.zarr_format = V3 -> 1 [] OTHER -> 2
    IN 3 * nr + fr

InitConc ==
    /\ InitRequests(Requests, MaxConcFaults)
    /\ DescRank(desc["r1"]) <= DescRank(desc["r2"])
    /\ CKIdle
    /\ SerIdle

Next ==
    \E r \in Requests :
        \/ Call(r)
        \/ GatherRaise(r)
        \/ GatherReturn(r)
        \/ \E i \in DOMAIN task[r] :
            \/ ReadStart(r, i)
            \/ ReadComplete(r, i)
            \/ ReadFail(r, i)

Spec == Init /\ [][Next]_vars

SpecConc == InitConc /\ [][Next]_vars

\* no resolution request runs while the chunk key encodings are exercised
ResolverIdle == InitRequests({}, 0) /\ store = {}

\* an encoding, and either a coordinate tuple to encode (alone, or to decode
\* again) or a key to decode
InitCK ==
    /\ ResolverIdle
    /\ ck_self \in Encodings
    /\ ck_pc \in {"encode", "decode", "roundtrip"}
    /\ ck_coords \in (IF ck_pc = "decode" THEN {<<>>} ELSE Coords)
    /\ ck_key \in (IF ck_pc = "decode" THEN InputKeys ELSE {<<>>})
    /\ ck_out = Pending
    /\ SerIdle

NextCK == CKEncode \/ CKDecode \/ CKRoundTrip

SpecCK == InitCK /\ [][NextCK]_vars

\* one call of the value codec or one construction of an encoding: a record
\* to encode and decode again, the bytes of a value tree to decode as a
\* dataclass, a value tree to decode as a type, a value tree given to
\* ChunkKeyEncoding.from_dict, or the keyword arguments of a construction
InitSer ==
    /\ ResolverIdle
    /\ CKIdle
    /\ \/ /\ ser_pc = "roundtrip"
          /\ \E cls \in RecordClasses :
                ser_type = Dataclass(cls) /\ ser_in \in Records(cls)
       \/ /\ ser_pc = "decode"
          /\ \E cls \in DecodedClasses :
                ser_type = Dataclass(cls) /\ ser_in \in {JsonBytes(t) : t \in Trees(cls)}
       \/ /\ ser_pc = "decode_value"
          /\ \E type \in ValueTypes : ser_type = type /\ ser_in \in InputsFor(type)
       \/ /\ ser_pc = "from_dict"
          /\ ser_type = Dataclass("ChunkKeyEncoding")
          /\ ser_in \in FromDictInputs
       \/ /\ ser_pc = "construct"
          /\ \E cls \in ConstructedClasses :
                ser_type = Dataclass(cls) /\ ser_in \in KeywordArguments(cls)
    /\ ser_doc = None
    /\ ser_out = Pending

NextSer == SerRoundTrip \/ SerDecode \/ SerDecodeValue \/ CKFromDict \/ CKConstruct

SpecSer == InitSer /\ [][NextSer]_vars

-----------------------------------------------------------------------------
(* Properties of the resolver *)

\* the request has come back to its caller
Finished(r) == pc[r] \in {"returned", "raised"}

\* the request's results were inspected: the second match has run
Inspected(r) ==
    \/ pc[r] = "returned"
    \/ pc[r] = "raised" /\ outcome[r].error.type # "StoreReadError"

\* some read of the request has failed
SomeReadFailed(r) == \E i \in DOMAIN task[r] : task[r][i].state = "failed"

\* the key sets the documentation of the resolver gives, case by case
KeyTable(n, f) ==
    CASE f = V3 -> {ZARR_JSON}
      [] n = ARRAY /\ f = V2 -> {ZARRAY_JSON, ZATTRS_JSON}
      [] n = ARRAY /\ f = None -> {ZARR_JSON, ZATTRS_JSON, ZARRAY_JSON}
      [] n = GROUP /\ f = V2 -> {ZGROUP_JSON, ZATTRS_JSON}
      [] n = GROUP /\ f = None -> {ZARR_JSON, ZATTRS_JSON, ZGROUP_JSON}
      [] n = None /\ f = V2 -> {ZARRAY_JSON, ZATTRS_JSON, ZGROUP_JSON}
      [] n = None /\ f = None -> {ZARR_JSON, ZATTRS_JSON, ZGROUP_JSON, ZARRAY_JSON}

C3_AmbiguousStateRaises ==
    \A r \in Requests :
        ( /\ Finished(r)
          /\ ~SomeReadFailed(r)
          /\ desc[r].node_type = None
          /\ desc[r].zarr_format \in {V2, None}
          /\ {ZARRAY_JSON, ZGROUP_JSON} \subseteq store
          /\ ZARR_JSON \notin store )
        => /\ outcome[r].kind = "raised"
           /\ outcome[r].error.type = "ContainsArrayAndGroupError"

\* C4 as stated: a request comes back to its caller, by returning or by
\* raising, only when every read it issued has completed or failed.
C4_ProceedsAfterEveryRead ==
    \A r \in Requests :
        Finished(r) =>
            \A i \in DOMAIN task[r] : task[r][i].state \in {"done", "failed"}

\* C4 as amended: a task exists for every path before any result is
\* inspected; the results are inspected, and the request returns, only when
\* every read has completed; a request that raises a read's error does so
\* once that read has failed, whatever the state of the other reads.
C4_FanOutFanIn ==
    \A r \in Requests :
        /\ pc[r] = "awaiting" =>
              /\ Len(task[r]) = Len(paths[r])
              /\ \A i \in DOMAIN task[r] : task[r][i].key = paths[r][i]
        /\ Inspected(r) =>
              /\ Len(task[r]) = Cardinality(KeyTable(desc[r].node_type, desc[r].zarr_format))
              /\ \A i \in DOMAIN task[r] : task[r][i].state = "done"
        /\ (pc[r] = "raised" /\ ~Inspected(r)) =>
              \E i \in DOMAIN task[r] :
                  /\ task[r][i].state = "failed"
                  /\ outcome[r].error = ReadError(task[r][i].key)

\* a request has raised a read's error while another of its reads is running
C4_Witness ==
    \E r \in Requests :
        /\ pc[r] = "raised"
        /\ outcome[r].error.type = "StoreReadError"
        /\ \E i \in DOMAIN task[r] : task[r][i].state = "running"

\* C5: once a read of a request has failed the request never returns
\* normally; when it comes back to its caller it raises the error of a read
\* that failed (the first one), and gives no value.
C5_ReadFailureSurfaces ==
    \A r \in Requests :
        SomeReadFailed(r) =>
            /\ pc[r] # "returned"
            /\ outcome[r].kind # "returned"
            /\ exc[r] # None
            /\ Finished(r) =>
                  /\ outcome[r] = Raised(exc[r])
                  /\ \E i \in DOMAIN task[r] :
                        /\ task[r][i].state = "failed"
                        /\ exc[r] = ReadError(task[r][i].key)

\* a request has raised the error of its failed read although another of its
\* reads succeeded
C5_Witness ==
    \E r \in Requests :
        /\ pc[r] = "raised"
        /\ \E i, j \in DOMAIN task[r] :
              /\ task[r][i].state = "failed"
              /\ task[r][j].state = "done"
              /\ task[r][j].result # None
              /\ outcome[r].error = ReadError(task[r][i].key)

\* C6: with zarr_format 3, whatever the node type, a finished request has
\* raised when zarr.json is absent from the store (the "todo" exception when
\* its read completed), and has not raised that exception when zarr.json is
\* present.
C6_V3MissingDocumentRaises ==
    \A r \in Requests :
        (Finished(r) /\ desc[r].zarr_format = V3) =>
            /\ ZARR_JSON \notin store =>
                  /\ outcome[r].kind = "raised"
                  /\ ~SomeReadFailed(r) => outcome[r].error = Error("Exception", "todo")
            /\ ZARR_JSON \in store =>
                  /\ outcome[r].error # Error("Exception", "todo")
                  /\ ~SomeReadFailed(r) => outcome[r] = Returned(None)

C6_Witness ==
    \E r \in Requests :
        /\ desc[r] = [node_type |-> None, zarr_format |-> V3]
        /\ ZARR_JSON \notin store
        /\ pc[r] = "raised"
        /\ outcome[r].error = Error("Exception", "todo")

\* C7: when none of zarr.json, .zarray, .zgroup is present among the keys a
\* request fetched, the request ends with an error, whatever its arguments.
C7_NothingPresentRaises ==
    \A r \in Requests :
        ( /\ Finished(r)
          /\ Range(paths[r]) \cap store \cap {ZARR_JSON, ZARRAY_JSON, ZGROUP_JSON} = {} )
        => outcome[r].kind = "raised"

\* the value C8 expects of a request: the node type, and the attributes
ResolvedAs(n, attrs) == [tag |-> "resolved", node_type |-> n, attributes |-> attrs]

\* C8: with a format other than 3 and exactly one of .zarray and .zgroup
\* present among the fetched keys, the request returns the node type of the
\* present key, with the attributes of .zattrs, or none when it is absent.
C8_LegacyKeyDecidesNodeType ==
    \A r \in Requests :
        \A k \in {ZARRAY_JSON, ZGROUP_JSON} :
            ( /\ Finished(r)
              /\ ~SomeReadFailed(r)
              /\ desc[r].zarr_format # V3
              /\ Range(paths[r]) \cap store \cap {ZARRAY_JSON, ZGROUP_JSON} = {k} )
            => /\ outcome[r].kind = "returned"
               /\ outcome[r].value =
                     ResolvedAs(IF k = ZARRAY_JSON THEN ARRAY ELSE GROUP,
                                StorePathGet(store, ZATTRS_JSON))

\* C9: the store receives one get for each key of the key set of the
\* request's arguments and no other get: never a second get for a key, also
\* after a read has failed, never a get for a key outside the set, and, once
\* every task has started, a get for every key of the set; the list of
\* paths built holds no key twice.
C9_OneGetPerKey ==
    \A r \in Requests :
        LET keys == KeyTable(desc[r].node_type, desc[r].zarr_format) IN
        /\ \A k \in KEYS :
              /\ gets[r][k] <= 1
              /\ gets[r][k] = 1 => k \in keys /\ pc[r] \notin {"ready", "absent"}
        /\ pc[r] = "awaiting" => Len(paths[r]) = Cardinality(Range(paths[r]))
        /\ (Finished(r) /\ \A i \in DOMAIN task[r] : task[r][i].state # "scheduled")
              => \A k \in keys : gets[r][k] = 1

\* every read of a four-key request has ended, one of them by failing, and
\* the store has received one get for each of the four keys
C9_Witness ==
    \E r \in Requests :
        /\ Finished(r)
        /\ SomeReadFailed(r)
        /\ Len(task[r]) = 4
        /\ \A i \in DOMAIN task[r] : task[r][i].state \in {"done", "failed"}
        /\ \A k \in KEYS : gets[r][k] = 1

\* what a request with arguments d gives against store s when it runs alone
\* and no read fails
AloneOutcome(d, s) ==
    Interpret(d.node_type, d.zarr_format, [k \in KEYS |-> StorePathGet(s, k)])

\* the state part of C10
C10_Independent ==
    \A r \in Requests :
        LET keys == KeyTable(desc[r].node_type, desc[r].zarr_format) IN
        /\ \A k \in KEYS : gets[r][k] <= (IF k \in keys THEN 1 ELSE 0)
        /\ (pc[r] \notin {"ready", "absent"}
                /\ \A i \in DOMAIN task[r] : task[r][i].state # "scheduled")
              => \A k \in KEYS : gets[r][k] = (IF k \in keys THEN 1 ELSE 0)
        /\ \A i \in DOMAIN task[r] :
              task[r][i].state = "done" =>
                  task[r][i].result = StorePathGet(store, task[r][i].key)
        /\ (Finished(r) /\ ~SomeReadFailed(r)) => outcome[r] = AloneOutcome(desc[r], store)
        /\ (Finished(r) /\ SomeReadFailed(r)) =>
              \E i \in DOMAIN task[r] :
                  /\ task[r][i].state = "failed"
                  /\ outcome[r] = Raised(ReadError(task[r][i].key))
        /\ \A q \in Requests :
              (desc[q] = desc[r] /\ Finished(q) /\ Finished(r)
                    /\ ~SomeReadFailed(q) /\ ~SomeReadFailed(r))
                 => outcome[q] = outcome[r] /\ gets[q] = gets[r]

\* C10: concurrent requests against one store do not affect each other: in
\* every interleaving each request issues the reads of its own key set, one
\* get per key, every read gets what the store holds, each request ends as it
\* does alone (the outcome of its arguments and the store when no read of its
\* own fails, the error of a read of its own otherwise), two requests with
\* the same arguments end alike, and no step changes the store.
C10_RequestsIndependent == [](C10_Independent) /\ [][store' = store]_vars

\* two requests with different arguments have both finished, one by raising
\* the error of its failed read, the other by returning
C10_Witness ==
    /\ desc["r1"] # desc["r2"]
    /\ pc["r1"] = "raised" /\ SomeReadFailed("r1")
    /\ pc["r2"] = "returned" /\ Len(task["r2"]) = 4

\* the key set _build_paths gives for a descriptor
KeySetOf(n, f) == Range(_build_paths(n, f).value)

-----------------------------------------------------------------------------
(* Properties of the chunk key encodings *)

\* C2: for every coordinate tuple, the empty one included, and each encoding
\* (default or v2, with either separator),
\* decode_chunk_key(encode_chunk_key(c)) returns c.
C2_ChunkKeyRoundTrip ==
    ck_pc = "roundtripped" => ck_out = Returned(ck_coords)

RECURSIVE DefaultKeyOf(_, _)
\* the key the default scheme documents for a coordinate tuple: "c", then for
\* each coordinate the separator and the coordinate in decimal
DefaultKeyOf(s, coords) ==
    IF coords = <<>> THEN <<"c">>
    ELSE DefaultKeyOf(s, SubSeq(coords, 1, Len(coords) - 1))
            \o <<s>> \o str(coords[Len(coords)])

\* the separator an encoding was constructed with
SeparatorOf(self) == self.fields.configuration.fields.separator.v

\* C14: for the default scheme with separator s, encode_chunk_key(()) returns
\* "c", and encode_chunk_key of a non-empty tuple returns "c", then s, then
\* the coordinates in decimal joined by s.
C14_DefaultEncodeKey ==
    (ck_pc = "encoded" /\ ck_self.cls = "DefaultChunkKeyEncoding") =>
        ck_out = Returned(DefaultKeyOf(SeparatorOf(ck_self), ck_coords))

\* C17: for the default scheme with separator s, decode_chunk_key("c") returns
\* (), and decode_chunk_key of "c", s, n1, s, ..., nk returns (n1, ..., nk).
C17_DefaultDecodeKey ==
    (ck_pc = "decoded" /\ ck_self.cls = "DefaultChunkKeyEncoding") =>
        \A c \in Coords :
            ck_key = DefaultKeyOf(SeparatorOf(ck_self), c) => ck_out = Returned(c)

-----------------------------------------------------------------------------
(* Properties of the value codec *)

\* C11: for every supported record r (with nested records, fields of a sum
\* type, fixed and variable-length tuples, sets, lists, and the leaves the
\* encoder converts: Enum members, complex numbers, dates, dtypes),
\* decode(encode(r), type(r)) returns r.
C11_RoundTrip ==
    ser_pc = "roundtripped" => ser_out = Returned(ser_in)

\* the unions of dataclasses that each tag one field with one literal
TaggedUnions == {AorB, CHUNK_KEY_ENCODINGS}

\* the field the variants of a union are tagged by
TagFieldOf(union) == IF union = CHUNK_KEY_ENCODINGS THEN "name" ELSE "x"

\* the literal a variant declares for its tag
TagLiteralOf(cls) ==
    CASE cls = "A" -> PyStr("a")
      [] cls = "B" -> PyStr("b")
      [] cls = "DefaultChunkKeyEncoding" -> PyStr("default")
      [] cls = "V2ChunkKeyEncoding" -> PyStr("v2")

\* the variants of a union whose literal is the value of the input's tag
VariantsFor(union, v) ==
    {c \in {union.args[i].name : i \in DOMAIN union.args} :
        /\ KindOf(v) = "dict"
        /\ DictHas(v, TagFieldOf(union))
        /\ TagLiteralOf(c) = DictGet(v, TagFieldOf(union))}

\* C12: decoding a value against a union of dataclasses that tag one field
\* with distinct literals gives what decoding the mapping as the variant
\* whose literal is the input's tag gives, an instance of that variant if any;
\* an input that is no mapping, that lacks the tag, or whose tag is no
\* variant's literal raises.
C12_TaggedUnionDecode ==
    (ser_pc = "value_decoded" /\ ser_type \in TaggedUnions) =>
        /\ \A c \in VariantsFor(ser_type, ser_in) :
                /\ ser_out = from_dict(ser_in, c)
                /\ ser_out.kind = "returned" => ser_out.value.cls = c
        /\ VariantsFor(ser_type, ser_in) = {} => ser_out.kind = "raised"

\* {"x": "b", "s": "a"} decoded as A | B gives the B holding "a"
C12_Witness ==
    /\ ser_pc = "value_decoded"
    /\ ser_type = AorB
    /\ ser_in = PyDict(<< <<"x", PyStr("b")>>, <<"s", PyStr("a")>> >>)
    /\ ser_out = Returned(Instance("B", [x |-> PyStr("b"), s |-> PyStr("a")]))

\* tuple[T, ...]
IsVariableTuple(type) ==
    get_origin(type) = "tuple" /\ Len(type.args) = 2 /\ type.args[2] = Ellipsis

\* C13: decoding a sequence against a tuple type of fixed arity raises when
\* the length of the sequence is not the arity; tuple[int, ...] accepts a
\* sequence of numbers of any length and gives the tuple of its elements.
C13_TupleArity ==
    (ser_pc = "value_decoded" /\ get_origin(ser_type) = "tuple" /\ KindOf(ser_in) = "list") =>
        IF IsVariableTuple(ser_type)
        THEN (\A i \in DOMAIN ser_in.v : KindOf(ser_in.v[i]) = "int") =>
                ser_out = Returned(PyTuple(ser_in.v))
        ELSE Len(ser_in.v) # Len(ser_type.args) => ser_out.kind = "raised"

\* the value tree that names a scheme and has no configuration
SchemeOnly(name) == PyDict(<< <<"name", PyStr(name)>> >>)

\* C15: a value tree that names a scheme and has no configuration is decoded,
\* by ChunkKeyEncoding.from_dict and by decode_value for CHUNK_KEY_ENCODINGS,
\* to the default encoding with separator "/" for "default" and to the v2
\* encoding with separator "." for "v2".
C15_DefaultSeparator ==
    (ser_pc = "from_dict_done" \/ (ser_pc = "value_decoded" /\ ser_type = CHUNK_KEY_ENCODINGS)) =>
        /\ ser_in = SchemeOnly("default") =>
                ser_out = Returned(DefaultChunkKeyEncoding(
                                        ChunkKeyEncodingConfiguration(PyStr("/"))))
        /\ ser_in = SchemeOnly("v2") =>
                ser_out = Returned(V2ChunkKeyEncoding(
                                        ChunkKeyEncodingConfiguration(PyStr("."))))

\* an instance of one of the two schemes
IsEncoding(v) ==
    "cls" \in DOMAIN v /\ v.cls \in {"DefaultChunkKeyEncoding", "V2ChunkKeyEncoding"}

\* an encoding whose name is the one of its class and whose configuration
\* holds a separator of SeparatorLiteral
ValidEncoding(e) ==
    /\ e.fields.name = TagLiteralOf(e.cls)
    /\ KindOf(e.fields.configuration) = "object"
    /\ e.fields.configuration.cls = "ChunkKeyEncodingConfiguration"
    /\ e.fields.configuration.fields.separator \in {PyStr("."), PyStr("/")}

\* C16: every encoding that a construction, ChunkKeyEncoding.from_dict or the
\* decoder returns has the name of its scheme and a separator "." or "/":
\* with another separator or another name the call raises.
C16_OnlyValidEncodings ==
    (ser_out.kind = "returned" /\ IsEncoding(ser_out.value)) => ValidEncoding(ser_out.value)

\* C18: a mapping whose x is "a", decoded as A | B | None, gives the A it
\* gives decoded as A | B, and raises when it raises decoded as A | B.
C18_OptionalTaggedUnion ==
    (/\ ser_pc = "value_decoded"
     /\ ser_type = AorBorNone
     /\ KindOf(ser_in) = "dict"
     /\ DictGet(ser_in, "x") = PyStr("a")) =>
        \E alone \in {decode_value(AorB, ser_in)} :
            IF alone.kind = "returned" THEN ser_out = alone ELSE ser_out.kind = "raised"

RECURSIVE Conforms(_, _)
\* a value tree has the shape of a type: a number for int, a string for str,
\* one of the literals for Literal, for a dataclass a mapping that holds a
\* fitting value for every field
Conforms(type, v) ==
    CASE type = IntType -> KindOf(v) = "int"
      [] type = StrType -> KindOf(v) = "str"
      [] type.k = "Literal" -> \E i \in DOMAIN type.args : type.args[i] = v
      [] type.k = "dataclass" ->
            /\ KindOf(v) = "dict"
            /\ \A i \in DOMAIN dataclass_fields(type.name) :
                /\ DictHas(v, dataclass_fields(type.name)[i].name)
                /\ Conforms(dataclass_fields(type.name)[i].type,
                            DictGet(v, dataclass_fields(type.name)[i].name))

RECURSIVE ValueOf(_, _)
\* the value a fitting value tree stands for
ValueOf(type, v) ==
    IF type.k = "dataclass"
    THEN Instance(type.name,
            [n \in FieldNames(type.name) |->
                LET f == CHOOSE f \in Range(dataclass_fields(type.name)) : f.name = n
                IN ValueOf(f.type, DictGet(v, n))])
    ELSE v

\* C19: when decode returns, the value tree holds for every field of the
\* dataclass (and of the dataclasses nested in it) a value of the field's
\* type, and the record returned holds those values; for any other tree
\* decode raises.
C19_NoPartialDecode ==
    (ser_pc = "decoded" /\ ser_out.kind = "returned") =>
        /\ Conforms(ser_type, ser_in.v)
        /\ ser_out.value = ValueOf(ser_type, ser_in.v)

====
